---- MODULE Spec2Model ----
(***************************************************************************)
(* A model of the character rigging pipeline of flowsmartly:               *)
(*   scripts/prepare-character.py   (prepare_character and its helpers)    *)
(*   scripts/animate_character.py   (the rig construction part of animate) *)
(*   scripts/batch-render-3d.py     (create_mask_and_skeleton's skeleton)  *)
(*                                                                         *)
(* Spec is one rig construction run, SkelSpec the skeleton synthesizer on  *)
(* its own, MaskSpec create_mask_from_image on pixels, BatchSpec one       *)
(* batch_process call.                                                     *)
(*                                                                         *)
(* Coordinates that come from the detection/pose service are floats; they  *)
(* are held here in half pixels (the integer n stands for n/2), so that    *)
(* Python's round (round half to even) is a real computation.              *)
(***************************************************************************)
EXTENDS Integers, Sequences, FiniteSets, TLC

VARIABLES
    \* ---- one rig construction run ----
    script,          \* "prepare" (prepare_character) or "animate" (animate)
    use_torchserve,  \* prepare_character's opt-in flag
    prerigged,       \* animate: the input's directory already holds char_cfg.yaml and mask.png
    src,             \* the source file: NoImage, or what cv2.imread decodes
    pc,              \* the run's position
    err,             \* the exception that left the run, "" when none
    files,           \* the character directory: file name -> content, Absent when missing
    img,             \* auto_detect_and_rig's img (after the 1000 px downscale)
    detect_content,  \* the detector's candidates as received, in response order
    detections,      \* the parsed detector response, sorted in place
    bbox,            \* l, t, r, b after rounding
    cropped,         \* img[t:b, l:r]
    mask,            \* animate_character.py: segment_character(cropped)
    pose_results,    \* the parsed pose response
    log,             \* the run's events, in program order
    \* ---- the skeleton synthesizer on its own ----
    sk_impl,         \* which implementation produced sk_out, "none" before
    sk_kpts,         \* 17 keypoints, half pixels
    sk_w, sk_h,      \* image width and height
    sk_out,          \* the joint list produced
    \* ---- the mask extractor on its own, pixel by pixel ----
    mk_src,          \* the image as decoded: size, channels, gray and alpha planes
    mk_route,        \* how the mask was asked for, "none" before
    mk_out,          \* the mask returned: cell -> 0 or 255
    \* ---- one batch_process call ----
    b_files,         \* the stems of the *.png files of the input directory
    b_todo,          \* the files not yet processed, in sorted order
    b_dirs,          \* the output directory: char_id -> what prepare_character left there
    b_manifest,      \* manifest["characters"], the ids in order
    b_done,          \* the files processed so far and how prepare_character ended
    b_pc,            \* "start", "loop", then "done" or "returned"
    \* ---- segmentation of a crop, pixel by pixel ----
    seg_src,         \* the crop: size, channel minimum plane, adaptive threshold plane
    seg_impl,        \* which script segmented it, "none" before
    seg_result,      \* "contour", "fallback" or "raised"
    seg_out,         \* the mask: cell -> 0 or 255
    \* ---- the image generation server ----
    pipe,            \* the pipeline is loaded
    is_busy,         \* _is_busy
    busy_since,      \* _busy_since
    now,             \* time.time()
    reqs,            \* the /generate requests: id -> position of its handler
    answer           \* what /health or /reset-busy answered last

runVars == <<script, use_torchserve, prerigged, src, pc, err, files, img,
             detect_content, detections, bbox, cropped, mask, pose_results, log>>
skVars == <<sk_impl, sk_kpts, sk_w, sk_h, sk_out>>
mkVars == <<mk_src, mk_route, mk_out>>
batchVars == <<b_files, b_todo, b_dirs, b_manifest, b_done, b_pc>>
segVars == <<seg_src, seg_impl, seg_result, seg_out>>
srvVars == <<pipe, is_busy, busy_since, now, reqs, answer>>
restVars == <<segVars, srvVars>>
vars == <<runVars, skVars, mkVars, batchVars, restVars>>

----------------------------------------------------------------------------
(* Bounds of the model *)

\* keypoint coordinates tried by the skeleton harness: -MaxCoord..MaxCoord half pixels
MaxCoord == 5
\* widths and heights tried by the skeleton harness: 1..MaxDim, and the sizes below
MaxDim == 12
\* candidates in one detector response
MaxCands == 2
\* detection scores tried: 1..MaxScore
MaxScore == 2
\* the length of the one-pixel-wide strips tried by the mask harness
MaskLen == 7
\* prepare_character calls made, one after the other, on one output directory
MaxRuns == 2
\* the length of the file stems and the number of files of a batch
MaxStem == 1
MaxBatch == 2

----------------------------------------------------------------------------
(* Numbers *)

Min(a, b) == IF a <= b THEN a ELSE b
Max(a, b) == IF a >= b THEN a ELSE b

\* Python's round(x) of the float n/d (d > 0): nearest integer, ties to even.
RoundHalfEven_up(n, d) ==
    LET q == n \div d
        r == n % d
    IN  IF 2 * r < d THEN q ELSE q + 1

RoundHalfEven(n, d) ==
    LET q == n \div d
        r == n % d
    IN  IF 2 * r < d THEN q
        ELSE IF 2 * r > d THEN q + 1
        ELSE IF q % 2 = 0 THEN q ELSE q + 1

\* int(n * 0.pct) for n >= 0: the float product truncated.  For the factors
\* 0.1, 0.15, 0.2, 0.22, 0.25, 0.28, 0.4, 0.5, 0.55, 0.75, 0.93 and 0.95 the
\* double product truncates to floor(n * pct / 100) for every n in 1..200000.
\* The double 0.58 lies below 58/100, and for the n listed the product
\* rounds to the double just below the integer n * 58 / 100 (n <= 1300).
BelowAt58 == {50, 100, 200, 400, 750, 800, 850}

IntPct(n, pct) ==
    IF pct = 58 /\ n \in BelowAt58 THEN (n * pct) \div 100 - 1
    ELSE (n * pct) \div 100

----------------------------------------------------------------------------
(* Skeleton Synthesizer *)

None == "None"

Joint(loc, name, parent) == [loc |-> loc, name |-> name, parent |-> parent]

\* round(x) for x in k, k a keypoint in half pixels
RoundPt(k) == <<RoundHalfEven(k[1], 2), RoundHalfEven(k[2], 2)>>
\* round(x) for x in (a + b) / 2
RoundMid(a, b) == <<RoundHalfEven(a[1] + b[1], 4), RoundHalfEven(a[2] + b[2], 4)>>

\* kpts is indexed 0..16 as in the source
prepare_keypoint_skeleton_cyclic(kpts) == <<
    Joint(RoundMid(kpts[11], kpts[12]), "root", None),
    Joint(RoundMid(kpts[11], kpts[12]), "hip", "root"),
    Joint(RoundMid(kpts[5], kpts[6]), "torso", "hip"),
    Joint(RoundPt(kpts[0]), "neck", "torso"),
    Joint(RoundPt(kpts[6]), "right_shoulder", "torso"),
    Joint(RoundPt(kpts[8]), "right_elbow", "right_hand"),
    Joint(RoundPt(kpts[10]), "right_hand", "right_elbow"),
    Joint(RoundPt(kpts[5]), "left_shoulder", "torso"),
    Joint(RoundPt(kpts[7]), "left_elbow", "left_shoulder"),
    Joint(RoundPt(kpts[9]), "left_hand", "left_elbow"),
    Joint(RoundPt(kpts[12]), "right_hip", "root"),
    Joint(RoundPt(kpts[14]), "right_knee", "right_hip"),
    Joint(RoundPt(kpts[16]), "right_foot", "right_knee"),
    Joint(RoundPt(kpts[11]), "left_hip", "root"),
    Joint(RoundPt(kpts[13]), "left_knee", "left_hip"),
    Joint(RoundPt(kpts[15]), "left_foot", "left_knee")>>

prepare_keypoint_skeleton(kpts) == <<
    Joint(RoundMid(kpts[11], kpts[12]), "root", None),
    Joint(RoundMid(kpts[11], kpts[12]), "hip", "root"),
    Joint(RoundMid(kpts[5], kpts[6]), "torso", "hip"),
    Joint(RoundPt(kpts[0]), "neck", "torso"),
    Joint(RoundPt(kpts[6]), "right_shoulder", "torso"),
    Joint(RoundPt(kpts[8]), "right_elbow", "right_shoulder"),
    Joint(RoundPt(kpts[10]), "right_hand", "right_elbow"),
    Joint(RoundPt(kpts[5]), "left_shoulder", "torso"),
    Joint(RoundPt(kpts[7]), "left_elbow", "left_shoulder"),
    Joint(RoundPt(kpts[9]), "left_hand", "left_elbow"),
    Joint(RoundPt(kpts[12]), "right_hip", "root"),
    Joint(RoundPt(kpts[14]), "right_knee", "right_hip"),
    Joint(RoundPt(kpts[16]), "right_foot", "right_knee"),
    Joint(RoundPt(kpts[11]), "left_hip", "root"),
    Joint(RoundPt(kpts[13]), "left_knee", "left_hip"),
    Joint(RoundPt(kpts[15]), "left_foot", "left_knee")>>

animate_keypoint_skeleton_renamed(kpts) == <<
    Joint(RoundMid(kpts[11], kpts[12]), "root", None),
    Joint(RoundMid(kpts[11], kpts[12]), "hip", "root"),
    Joint(RoundMid(kpts[5], kpts[6]), "torso", "hip"),
    Joint(RoundPt(kpts[0]), "neck", "torso"),
    Joint(RoundPt(kpts[6]), "right_shoulder", "torso"),
    Joint(RoundPt(kpts[8]), "right_elbow", "right_shoulder"),
    Joint(RoundPt(kpts[10]), "right_wrist", "right_elbow"),
    Joint(RoundPt(kpts[5]), "left_shoulder", "torso"),
    Joint(RoundPt(kpts[7]), "left_elbow", "left_shoulder"),
    Joint(RoundPt(kpts[9]), "left_wrist", "left_elbow"),
    Joint(RoundPt(kpts[12]), "right_hip", "root"),
    Joint(RoundPt(kpts[14]), "right_knee", "right_hip"),
    Joint(RoundPt(kpts[16]), "right_foot", "right_knee"),
    Joint(RoundPt(kpts[11]), "left_hip", "root"),
    Joint(RoundPt(kpts[13]), "left_knee", "left_hip"),
    Joint(RoundPt(kpts[15]), "left_foot", "left_knee")>>

animate_keypoint_skeleton_crossed(kpts) == <<
    Joint(RoundMid(kpts[11], kpts[12]), "root", None),
    Joint(RoundMid(kpts[11], kpts[12]), "hip", "root"),
    Joint(RoundMid(kpts[5], kpts[6]), "torso", "hip"),
    Joint(RoundPt(kpts[0]), "neck", "torso"),
    Joint(RoundPt(kpts[5]), "right_shoulder", "torso"),
    Joint(RoundPt(kpts[7]), "right_elbow", "right_shoulder"),
    Joint(RoundPt(kpts[9]), "right_hand", "right_elbow"),
    Joint(RoundPt(kpts[6]), "left_shoulder", "torso"),
    Joint(RoundPt(kpts[8]), "left_elbow", "left_shoulder"),
    Joint(RoundPt(kpts[10]), "left_hand", "left_elbow"),
    Joint(RoundPt(kpts[11]), "right_hip", "root"),
    Joint(RoundPt(kpts[13]), "right_knee", "right_hip"),
    Joint(RoundPt(kpts[15]), "right_foot", "right_knee"),
    Joint(RoundPt(kpts[12]), "left_hip", "root"),
    Joint(RoundPt(kpts[14]), "left_knee", "left_hip"),
    Joint(RoundPt(kpts[16]), "left_foot", "left_knee")>>

animate_keypoint_skeleton(kpts) == <<
    Joint(RoundMid(kpts[11], kpts[12]), "root", None),
    Joint(RoundMid(kpts[11], kpts[12]), "hip", "root"),
    Joint(RoundMid(kpts[5], kpts[6]), "torso", "hip"),
    Joint(RoundPt(kpts[0]), "neck", "torso"),
    Joint(RoundPt(kpts[6]), "right_shoulder", "torso"),
    Joint(RoundPt(kpts[8]), "right_elbow", "right_shoulder"),
    Joint(RoundPt(kpts[10]), "right_hand", "right_elbow"),
    Joint(RoundPt(kpts[5]), "left_shoulder", "torso"),
    Joint(RoundPt(kpts[7]), "left_elbow", "left_shoulder"),
    Joint(RoundPt(kpts[9]), "left_hand", "left_elbow"),
    Joint(RoundPt(kpts[12]), "right_hip", "root"),
    Joint(RoundPt(kpts[14]), "right_knee", "right_hip"),
    Joint(RoundPt(kpts[16]), "right_foot", "right_knee"),
    Joint(RoundPt(kpts[11]), "left_hip", "root"),
    Joint(RoundPt(kpts[13]), "left_knee", "left_hip"),
    Joint(RoundPt(kpts[15]), "left_foot", "left_knee")>>

prepare_create_simple_skeleton_ceil(width, height) ==
    LET cx == (width + 1) \div 2
        neck_y == IntPct(height, 22)
        torso_y == IntPct(height, 40)
        hip_y == IntPct(height, 55)
        knee_y == IntPct(height, 75)
        foot_y == IntPct(height, 95)
        shoulder_offset == IntPct(width, 20)
        hip_offset == IntPct(width, 10)
    IN <<
    Joint(<<cx, hip_y>>, "root", None),
    Joint(<<cx, hip_y>>, "hip", "root"),
    Joint(<<cx, torso_y>>, "torso", "hip"),
    Joint(<<cx, neck_y>>, "neck", "torso"),
    Joint(<<cx - shoulder_offset, torso_y>>, "right_shoulder", "torso"),
    Joint(<<cx - shoulder_offset - 20, torso_y + 30>>, "right_elbow", "right_shoulder"),
    Joint(<<cx - shoulder_offset - 40, torso_y + 60>>, "right_hand", "right_elbow"),
    Joint(<<cx + shoulder_offset, torso_y>>, "left_shoulder", "torso"),
    Joint(<<cx + shoulder_offset + 20, torso_y + 30>>, "left_elbow", "left_shoulder"),
    Joint(<<cx + shoulder_offset + 40, torso_y + 60>>, "left_hand", "left_elbow"),
    Joint(<<cx - hip_offset, hip_y>>, "right_hip", "root"),
    Joint(<<cx - hip_offset, knee_y>>, "right_knee", "right_hip"),
    Joint(<<cx - hip_offset, foot_y>>, "right_foot", "right_knee"),
    Joint(<<cx + hip_offset, hip_y>>, "left_hip", "root"),
    Joint(<<cx + hip_offset, knee_y>>, "left_knee", "left_hip"),
    Joint(<<cx + hip_offset, foot_y>>, "left_foot", "left_knee")>>

\* head_y = int(height * 0.15) is computed and never used
prepare_create_simple_skeleton(width, height) ==
    LET cx == width \div 2
        neck_y == IntPct(height, 22)
        torso_y == IntPct(height, 40)
        hip_y == IntPct(height, 55)
        knee_y == IntPct(height, 75)
        foot_y == IntPct(height, 95)
        shoulder_offset == IntPct(width, 20)
        hip_offset == IntPct(width, 10)
    IN <<
    Joint(<<cx, hip_y>>, "root", None),
    Joint(<<cx, hip_y>>, "hip", "root"),
    Joint(<<cx, torso_y>>, "torso", "hip"),
    Joint(<<cx, neck_y>>, "neck", "torso"),
    Joint(<<cx - shoulder_offset, torso_y>>, "right_shoulder", "torso"),
    Joint(<<cx - shoulder_offset - 20, torso_y + 30>>, "right_elbow", "right_shoulder"),
    Joint(<<cx - shoulder_offset - 40, torso_y + 60>>, "right_hand", "right_elbow"),
    Joint(<<cx + shoulder_offset, torso_y>>, "left_shoulder", "torso"),
    Joint(<<cx + shoulder_offset + 20, torso_y + 30>>, "left_elbow", "left_shoulder"),
    Joint(<<cx + shoulder_offset + 40, torso_y + 60>>, "left_hand", "left_elbow"),
    Joint(<<cx - hip_offset, hip_y>>, "right_hip", "root"),
    Joint(<<cx - hip_offset, knee_y>>, "right_knee", "right_hip"),
    Joint(<<cx - hip_offset, foot_y>>, "right_foot", "right_knee"),
    Joint(<<cx + hip_offset, hip_y>>, "left_hip", "root"),
    Joint(<<cx + hip_offset, knee_y>>, "left_knee", "left_hip"),
    Joint(<<cx + hip_offset, foot_y>>, "left_foot", "left_knee")>>

animate_create_simple_skeleton(width, height) ==
    LET cx == width \div 2
        neck_y == IntPct(height, 22)
        torso_y == IntPct(height, 40)
        hip_y == IntPct(height, 55)
        knee_y == IntPct(height, 75)
        foot_y == IntPct(height, 95)
        shoulder_offset == IntPct(width, 20)
        hip_offset == IntPct(width, 10)
    IN <<
    Joint(<<cx, hip_y>>, "root", None),
    Joint(<<cx, hip_y>>, "hip", "root"),
    Joint(<<cx, torso_y>>, "torso", "hip"),
    Joint(<<cx, neck_y>>, "neck", "torso"),
    Joint(<<cx - shoulder_offset, torso_y>>, "right_shoulder", "torso"),
    Joint(<<cx - shoulder_offset - 20, torso_y + 30>>, "right_elbow", "right_shoulder"),
    Joint(<<cx - shoulder_offset - 40, torso_y + 60>>, "right_hand", "right_elbow"),
    Joint(<<cx + shoulder_offset, torso_y>>, "left_shoulder", "torso"),
    Joint(<<cx + shoulder_offset + 20, torso_y + 30>>, "left_elbow", "left_shoulder"),
    Joint(<<cx + shoulder_offset + 40, torso_y + 60>>, "left_hand", "left_elbow"),
    Joint(<<cx - hip_offset, hip_y>>, "right_hip", "root"),
    Joint(<<cx - hip_offset, knee_y>>, "right_knee", "right_hip"),
    Joint(<<cx - hip_offset, foot_y>>, "right_foot", "right_knee"),
    Joint(<<cx + hip_offset, hip_y>>, "left_hip", "root"),
    Joint(<<cx + hip_offset, knee_y>>, "left_knee", "left_hip"),
    Joint(<<cx + hip_offset, foot_y>>, "left_foot", "left_knee")>>

\* the skeleton list of batch-render-3d.py's create_mask_and_skeleton
batch_render_skeleton(width, height) ==
    LET cx == width \div 2
    IN <<
    Joint(<<cx, IntPct(height, 55)>>, "root", None),
    Joint(<<cx, IntPct(height, 55)>>, "hip", "root"),
    Joint(<<cx, IntPct(height, 40)>>, "torso", "hip"),
    Joint(<<cx, IntPct(height, 22)>>, "neck", "torso"),
    Joint(<<cx - IntPct(width, 20), IntPct(height, 40)>>, "right_shoulder", "torso"),
    Joint(<<cx - IntPct(width, 25), IntPct(height, 50)>>, "right_elbow", "right_shoulder"),
    Joint(<<cx - IntPct(width, 28), IntPct(height, 58)>>, "right_hand", "right_elbow"),
    Joint(<<cx + IntPct(width, 20), IntPct(height, 40)>>, "left_shoulder", "torso"),
    Joint(<<cx + IntPct(width, 25), IntPct(height, 50)>>, "left_elbow", "left_shoulder"),
    Joint(<<cx + IntPct(width, 28), IntPct(height, 58)>>, "left_hand", "left_elbow"),
    Joint(<<cx - IntPct(width, 10), IntPct(height, 55)>>, "right_hip", "root"),
    Joint(<<cx - IntPct(width, 10), IntPct(height, 75)>>, "right_knee", "right_hip"),
    Joint(<<cx - IntPct(width, 10), IntPct(height, 93)>>, "right_foot", "right_knee"),
    Joint(<<cx + IntPct(width, 10), IntPct(height, 55)>>, "left_hip", "root"),
    Joint(<<cx + IntPct(width, 10), IntPct(height, 75)>>, "left_knee", "left_hip"),
    Joint(<<cx + IntPct(width, 10), IntPct(height, 93)>>, "left_foot", "left_knee")>>

----------------------------------------------------------------------------
(* The skeleton synthesizer on its own: the inputs are drawn in SkInit and *)
(* each action applies one implementation to them.                         *)

\* a pose whose 17 keypoints round to pairwise distinct pixels
TemplateKpt(i) == <<40 + 6 * i + (i % 2), 200 + 10 * i + ((i + 1) % 2)>>
TemplatePose == [i \in 0..16 |-> TemplateKpt(i)]
\* a second pose, mirrored left to right
MirrorPose == [i \in 0..16 |-> <<400 - TemplateKpt(i)[1], TemplateKpt(i)[2] + 3>>]

Coords == (0 - MaxCoord)..MaxCoord
\* the template with one keypoint moved anywhere in Coords x Coords
KptInputs ==
    {[TemplatePose EXCEPT ![i] = <<x, y>>] : i \in 0..16, x \in Coords, y \in Coords}

Dims == (1..MaxDim) \cup {50, 400, 600}

IdleRun ==
    /\ script = "none"
    /\ use_torchserve = FALSE
    /\ prerigged = FALSE
    /\ src = [kind |-> "undecodable"]
    /\ pc = "idle"
    /\ err = ""
    /\ files = [kind |-> "nothing"]
    /\ img = [kind |-> "nothing"]
    /\ detect_content = [kind |-> "nothing"]
    /\ detections = [kind |-> "nothing"]
    /\ bbox = [kind |-> "nothing"]
    /\ cropped = [kind |-> "nothing"]
    /\ mask = [kind |-> "nothing"]
    /\ pose_results = [kind |-> "nothing"]
    /\ log = <<>>

IdleSk ==
    /\ sk_impl = "none"
    /\ sk_kpts = TemplatePose
    /\ sk_w = 1
    /\ sk_h = 1
    /\ sk_out = <<>>

IdleMask ==
    /\ mk_src = [kind |-> "nothing"]
    /\ mk_route = "none"
    /\ mk_out = [kind |-> "nothing"]

IdleBatch ==
    /\ b_files = {}
    /\ b_todo = <<>>
    /\ b_dirs = <<>>
    /\ b_manifest = <<>>
    /\ b_done = <<>>
    /\ b_pc = "idle"

IdleSeg ==
    /\ seg_src = [kind |-> "nothing"]
    /\ seg_impl = "none"
    /\ seg_result = ""
    /\ seg_out = <<>>

IdleServer ==
    /\ pipe = FALSE
    /\ is_busy = FALSE
    /\ busy_since = 0
    /\ now = 0
    /\ reqs = <<>>
    /\ answer = [ep |-> "none"]

IdleRest == IdleSeg /\ IdleServer

SkInit ==
    /\ IdleRun
    /\ IdleMask
    /\ IdleBatch
    /\ IdleRest
    /\ sk_impl = "none"
    /\ sk_out = <<>>
    /\ \/ sk_kpts \in KptInputs /\ sk_w = 400 /\ sk_h = 600
       \/ sk_kpts = TemplatePose /\ sk_w \in Dims /\ sk_h \in Dims

SkApply(impl, out) ==
    /\ sk_impl' = impl
    /\ sk_out' = out
    /\ UNCHANGED <<sk_kpts, sk_w, sk_h>>
    /\ UNCHANGED <<runVars, mkVars, batchVars, restVars>>

SkPrepareKeypoint == SkApply("prepare_keypoint", prepare_keypoint_skeleton(sk_kpts))
SkAnimateKeypoint == SkApply("animate_keypoint", animate_keypoint_skeleton(sk_kpts))
SkPrepareSimple == SkApply("prepare_simple", prepare_create_simple_skeleton(sk_w, sk_h))
SkAnimateSimple == SkApply("animate_simple", animate_create_simple_skeleton(sk_w, sk_h))
SkBatchRender == SkApply("batch_render", batch_render_skeleton(sk_w, sk_h))

SkNext ==
    \/ SkPrepareKeypoint
    \/ SkAnimateKeypoint
    \/ SkPrepareSimple
    \/ SkAnimateSimple
    \/ SkBatchRender

SkelSpec == SkInit /\ [][SkNext]_vars

KeypointImpls == {"prepare_keypoint", "animate_keypoint"}
SimpleImpls == {"prepare_simple", "animate_simple"}
ProportionalImpls == SimpleImpls \cup {"batch_render"}

----------------------------------------------------------------------------
(* Reading a skeleton *)

JointNames(sk) == {sk[i].name : i \in DOMAIN sk}
JointNamed(sk, n) == sk[CHOOSE i \in DOMAIN sk : sk[i].name = n]
LocOf(sk, n) == JointNamed(sk, n).loc
\* the names and parents, in order, without the coordinates
Topology(sk) == [i \in DOMAIN sk |-> <<sk[i].name, sk[i].parent>>]



----------------------------------------------------------------------------
(* Images, files and service responses *)

\* cv2.imread returns None
NoImage == [kind |-> "undecodable"]
Nothing == [kind |-> "nothing"]
Absent == [kind |-> "absent"]

FileNames == {"texture.png", "mask.png", "char_cfg.yaml", "thumbnail.png",
              "image.png", "bounding_box.yaml"}
BundleFiles == {"texture.png", "mask.png", "char_cfg.yaml", "thumbnail.png"}

\* An image is described by its size, its channels and the pixels it shows:
\* the w x h region at (x0, y0) of the decoded source ("source") or of the
\* image sent to the detector ("sent").
Image(w, h, ch, base, x0, y0) ==
    [kind |-> "image", w |-> w, h |-> h, ch |-> ch, base |-> base, x0 |-> x0, y0 |-> y0]

\* the sizes of source images tried: a portrait, one above 1000 px that is
\* scaled down for the service, and a sliver that scales to width 0
SrcSizes == {<<400, 600>>, <<2400, 1200>>, <<1, 2400>>}
SrcChannels == {1, 3, 4}
Sources ==
    {NoImage} \cup {Image(d[1], d[2], c, "source", 0, 0) : d \in SrcSizes, c \in SrcChannels}

StatusCodes == {200, 204, 503}

\* requests.get / requests.post: an exception (connection refused, timeout), or a response
Exception == [exc |-> TRUE, status |-> 0, body |-> Nothing]
Response(status, body) == [exc |-> FALSE, status |-> status, body |-> body]

\* resp.content as json.loads sees it
NotJson == [kind |-> "not_json"]     \* json.loads raises
Falsy == [kind |-> "falsy"]          \* [], {}, null, 0, "": `not x` holds
Malformed == [kind |-> "malformed"]  \* truthy JSON of the wrong shape
List(items) == [kind |-> "list", items |-> items]

\* bounding boxes a detector may return, in half pixels: the box of the spec's
\* scenario C, one whose sides lie halfway between pixels, an empty one, and
\* one that leaves the image on the left, the right and the bottom
BBoxes == {<<20, 20, 580, 780>>, <<1, 3, 201, 401>>,
           <<10, 10, 10, 100>>, <<0 - 20, 0, 5000, 6000>>}
Candidates == [score : 1..MaxScore, bbox : BBoxes]

\* the non-empty candidate lists of at most MaxCands candidates, no two with the same box
RECURSIVE SeqsUpTo(_, _)
SeqsUpTo(S, n) ==
    IF n = 0 THEN {<<>>}
    ELSE LET shorter == SeqsUpTo(S, n - 1)
         IN  shorter \cup {Append(q, c) : q \in {r \in shorter : Len(r) = n - 1}, c \in S}
CandidateLists ==
    {q \in SeqsUpTo(Candidates, MaxCands) :
        /\ Len(q) >= 1
        /\ \A i, j \in DOMAIN q : i # j => q[i].bbox # q[j].bbox}

DetectBodies == {NotJson, Falsy, Malformed} \cup {List(q) : q \in CandidateLists}
DetectResponses ==
    {Exception} \cup {Response(st, b) : st \in StatusCodes, b \in DetectBodies}

Poses == {TemplatePose, MirrorPose}
PoseBodies == {NotJson, Falsy, Malformed} \cup {List(<<[keypoints |-> k]>>) : k \in Poses}
PoseResponses ==
    {Exception} \cup {Response(st, b) : st \in StatusCodes, b \in PoseBodies}

ProbeResponses == {Exception} \cup {Response(st, Nothing) : st \in StatusCodes}

\* an event of the run; a request carries the status and the kind of body received
Ev(name) == [ev |-> name, status |-> 0, kind |-> ""]
EvR(name, resp) ==
    [ev |-> name, status |-> resp.status,
     kind |-> IF resp.exc THEN "exception" ELSE resp.body.kind]

----------------------------------------------------------------------------
(* Detection Client *)

\* is_torchserve_running: resp.status_code == 200, False on any exception
is_torchserve_running(resp) == ~resp.exc /\ resp.status = 200

\* The try block around a detect or pose request and the test that follows it:
\* "fail" is return False, "raise" an exception that leaves auto_detect_and_rig
\* (the sort, the indexing and the keypoint slicing lie outside the try).
RequestOutcome(resp) ==
    IF resp.exc THEN "fail"
    ELSE IF resp.status >= 300 THEN "fail"
    ELSE IF resp.body.kind = "not_json" THEN "fail"
    ELSE IF resp.body.kind = "falsy" THEN "fail"
    ELSE IF resp.body.kind = "malformed" THEN "raise"
    ELSE "ok"

\* list.sort(key=lambda x: x["score"], reverse=True): descending and stable,
\* candidates of equal score keep their order
InsertDesc_before_equals(c, sorted) ==
    LET k == Cardinality({i \in DOMAIN sorted : sorted[i].score > c.score})
    IN  SubSeq(sorted, 1, k) \o <<c>> \o SubSeq(sorted, k + 1, Len(sorted))

InsertDesc(c, sorted) ==
    LET k == Cardinality({i \in DOMAIN sorted : sorted[i].score >= c.score})
    IN  SubSeq(sorted, 1, k) \o <<c>> \o SubSeq(sorted, k + 1, Len(sorted))

RECURSIVE SortPrefix(_, _)
SortPrefix(items, n) ==
    IF n = 0 THEN <<>> ELSE InsertDesc(items[n], SortPrefix(items, n - 1))

SortByScoreDesc(items) == SortPrefix(items, Len(items))

\* l, t, r, b = [round(x) for x in bbox]
RoundBox(b) == [i \in 1..4 |-> RoundHalfEven(b[i], 2)]

\* a slice bound i on an axis of length n, as Python clips it
SliceBound(i, n) == IF i < 0 THEN Max(i + n, 0) ELSE Min(i, n)

\* img[t:b, l:r]
Crop(im, box) ==
    LET x0 == SliceBound(box[1], im.w)
        x1 == SliceBound(box[3], im.w)
        y0 == SliceBound(box[2], im.h)
        y1 == SliceBound(box[4], im.h)
    IN  Image(Max(x1 - x0, 0), Max(y1 - y0, 0), im.ch, im.base, im.x0 + x0, im.y0 + y0)

IsEmpty(im) == im.w = 0 \/ im.h = 0

\* cv2.imread(img_path): 3 channels; then the resize to at most 1000 px.
\* round(scale * n) with scale = 1000 / max is round(1000 n / max); the float
\* computation agrees with the exact one for the sizes of SrcSizes.
Downscaled(source) ==
    LET m == Max(Max(source.w, source.h), 3)
    IN  IF m > 1000
        THEN Image(RoundHalfEven(1000 * source.w, m), RoundHalfEven(1000 * source.h, m),
                   3, "sent", 0, 0)
        ELSE Image(source.w, source.h, 3, "sent", 0, 0)

----------------------------------------------------------------------------
(* Mask Extractor, by the mode that produced the mask *)

Mask(w, h, mode) == [kind |-> "mask", w |-> w, h |-> h, mode |-> mode]

\* create_mask_from_image: the alpha channel when there are 4 channels,
\* else the 240 threshold, closed and dilated
create_mask_from_image(im) ==
    IF im.ch = 4 THEN Mask(im.w, im.h, "alpha")
    ELSE Mask(im.w, im.h, "threshold_close_dilate")

segment_character_untransposed(im) == Mask(im.h, im.w, "segment")

\* segment_character of animate_character.py when a contour is found: the
\* largest contour, filled, transposed back to the crop's rows and columns
segment_character(im) == Mask(im.w, im.h, "segment")

\* segment_character when no contour is found: the plain 240 threshold
segment_fallback(im) == Mask(im.w, im.h, "threshold")

\* measure.find_contours raises ValueError on an array with a side below 2
TooThin(im) == im.w < 2 \/ im.h < 2

\* what segment_character may return for a crop of this size: the four border
\* lines are cleared before the contours are looked for, so a crop needs a
\* cell off the border to hold a contour; then its content decides
segment_outcomes(im) ==
    IF im.w <= 2 \/ im.h <= 2 THEN {segment_fallback(im)}
    ELSE {segment_character(im), segment_fallback(im)}

\* the mask prepare-character.py's auto_detect_and_rig writes
prepare_auto_mask(im) == Mask(im.w, im.h, "adaptive_close_dilate")

----------------------------------------------------------------------------
(* Mask Extractor, pixel by pixel.  A plane is a function from the cells   *)
(* (x, y) of a w x h image to 0..255.  A color image is held by its gray   *)
(* plane (its three channels are equal, so COLOR_BGR2GRAY returns that     *)
(* value); an image without alpha channel has alpha 255 once converted.    *)

Cells(w, h) == (1..w) \X (1..h)

PixelImage(w, h, ch, gray, alpha) ==
    [kind |-> "pixels", w |-> w, h |-> h, ch |-> ch, gray |-> gray, alpha |-> alpha]

\* cv2.getStructuringElement(cv2.MORPH_ELLIPSE, (5, 5)), as offsets from the anchor:
\*   0 0 1 0 0 / 1 1 1 1 1 / 1 1 1 1 1 / 1 1 1 1 1 / 0 0 1 0 0
MORPH_ELLIPSE_5x5 ==
    {d \in ((0 - 2)..2) \X ((0 - 2)..2) : (d[2] = 2 \/ d[2] = 0 - 2) => d[1] = 0}

alpha_threshold_ge(alpha) == [c \in DOMAIN alpha |-> IF alpha[c] >= 128 THEN 255 ELSE 0]

\* (mask > 128).astype(np.uint8) * 255
alpha_threshold(alpha) == [c \in DOMAIN alpha |-> IF alpha[c] > 128 THEN 255 ELSE 0]

\* cv2.threshold(gray, thresh, maxval, cv2.THRESH_BINARY_INV)
threshold_binary_inv(gray, thresh, maxval) ==
    [c \in DOMAIN gray |-> IF gray[c] > thresh THEN 0 ELSE maxval]

\* one pass of cv2.dilate / cv2.erode; cells outside the image do not count
\* (the default border value of the morphology functions)
dilate(m, kernel) ==
    [c \in DOMAIN m |->
        IF \E d \in kernel :
              /\ <<c[1] + d[1], c[2] + d[2]>> \in DOMAIN m
              /\ m[<<c[1] + d[1], c[2] + d[2]>>] = 255
        THEN 255 ELSE 0]

erode(m, kernel) ==
    [c \in DOMAIN m |->
        IF \A d \in kernel :
              <<c[1] + d[1], c[2] + d[2]>> \in DOMAIN m
                  => m[<<c[1] + d[1], c[2] + d[2]>>] = 255
        THEN 255 ELSE 0]

RECURSIVE dilate_n(_, _, _)
dilate_n(m, kernel, iterations) ==
    IF iterations = 0 THEN m ELSE dilate_n(dilate(m, kernel), kernel, iterations - 1)

RECURSIVE erode_n(_, _, _)
erode_n(m, kernel, iterations) ==
    IF iterations = 0 THEN m ELSE erode_n(erode(m, kernel), kernel, iterations - 1)

\* cv2.morphologyEx(m, cv2.MORPH_CLOSE, kernel, iterations=n): n dilations, then n erosions
morph_close(m, kernel, iterations) ==
    erode_n(dilate_n(m, kernel, iterations), kernel, iterations)

\* create_mask_from_image on the pixels
create_mask_pixels(im) ==
    IF im.ch = 4
    THEN alpha_threshold(im.alpha)
    ELSE LET raw == threshold_binary_inv(im.gray, 240, 255)
             closed == morph_close(raw, MORPH_ELLIPSE_5x5, 2)
         IN  dilate_n(closed, MORPH_ELLIPSE_5x5, 1)

\* "Ensure RGBA": cv2.cvtColor(img, COLOR_GRAY2BGRA / COLOR_BGR2BGRA) gives alpha 255
EnsureRGBA(im) ==
    IF im.ch = 4 THEN im
    ELSE [im EXCEPT !.ch = 4, !.alpha = [c \in DOMAIN im.alpha |-> 255]]

\* the images tried: a square and two strips; the cells of a set S hold one
\* value and the others a second one, around the two cutoffs
MaskSizes == {<<3, 3>>, <<MaskLen, 1>>, <<1, MaskLen>>}
PixelPairs == {<<0, 255>>, <<128, 129>>, <<240, 241>>}
Plane(w, h, S, pair) == [c \in Cells(w, h) |-> IF c \in S THEN pair[1] ELSE pair[2]]
Flat(w, h, v) == [c \in Cells(w, h) |-> v]
MaskInputs ==
    UNION {
        {PixelImage(d[1], d[2], ch, Plane(d[1], d[2], S, pr), Flat(d[1], d[2], 255)) :
            ch \in {1, 3}, S \in SUBSET Cells(d[1], d[2]), pr \in PixelPairs}
        \cup
        {PixelImage(d[1], d[2], 4, Flat(d[1], d[2], 0), Plane(d[1], d[2], S, pr)) :
            S \in SUBSET Cells(d[1], d[2]), pr \in PixelPairs}
        : d \in MaskSizes}

MkInit ==
    /\ IdleRun
    /\ IdleSk
    /\ IdleBatch
    /\ IdleRest
    /\ mk_src \in MaskInputs
    /\ mk_route = "none"
    /\ mk_out = <<>>

\* create_mask_from_image called on the image as decoded
MkFromImage ==
    /\ mk_route' = "from_image"
    /\ mk_out' = create_mask_pixels(mk_src)
    /\ UNCHANGED <<mk_src, runVars, skVars, batchVars, restVars>>

\* SIMPLE_RIG: "Ensure RGBA", then create_mask_from_image(img)
MkSimpleRig ==
    /\ mk_route' = "simple_rig"
    /\ mk_out' = create_mask_pixels(EnsureRGBA(mk_src))
    /\ UNCHANGED <<mk_src, runVars, skVars, batchVars, restVars>>

MkNext ==
    \/ MkFromImage
    \/ MkSimpleRig

MaskSpec == MkInit /\ [][MkNext]_vars

----------------------------------------------------------------------------
(* Rig Assembler *)

CharCfg(width, height, skeleton) ==
    [kind |-> "char_cfg", width |-> width, height |-> height, skeleton |-> skeleton]

ToRGBA(im) == [im EXCEPT !.ch = 4]

Init ==
    /\ script \in {"prepare", "animate"}
    /\ use_torchserve \in BOOLEAN
    /\ prerigged \in BOOLEAN
    /\ script = "prepare" => ~prerigged
    /\ script = "animate" => ~use_torchserve
    /\ src \in Sources
    /\ pc = "start"
    /\ err = ""
    /\ files = [f \in FileNames |-> Absent]
    /\ img = Nothing
    /\ detect_content = Nothing
    /\ detections = Nothing
    /\ bbox = Nothing
    /\ cropped = Nothing
    /\ mask = Nothing
    /\ pose_results = Nothing
    /\ log = <<>>
    /\ IdleSk
    /\ IdleMask
    /\ IdleBatch
    /\ IdleRest

locals == <<img, detect_content, detections, bbox, cropped, mask, pose_results>>
inputs == <<script, use_torchserve, prerigged, src>>

\* the locals of auto_detect_and_rig end with the call
DropLocals ==
    /\ img' = Nothing
    /\ detect_content' = Nothing
    /\ detections' = Nothing
    /\ bbox' = Nothing
    /\ cropped' = Nothing
    /\ mask' = Nothing
    /\ pose_results' = Nothing

\* an exception leaves the run
Raise(e, events) ==
    /\ pc' = "raised"
    /\ err' = e
    /\ log' = log \o events \o <<Ev("raise")>>
    /\ DropLocals

\* auto_detect_and_rig returns False
Fallback_retry(events) ==
    /\ pc' = "probe"
    /\ log' = log \o events \o <<Ev("auto_failed")>>
    /\ DropLocals
    /\ UNCHANGED <<err, files>>

Fallback(events) ==
    /\ pc' = "simple"
    /\ log' = log \o events \o <<Ev("auto_failed")>>
    /\ DropLocals
    /\ UNCHANGED <<err, files>>

\* prepare_character up to the probe: mkdir, imread, the use_torchserve test
prepare_Start ==
    /\ script = "prepare"
    /\ pc = "start"
    /\ IF src = NoImage
       THEN /\ Raise("ValueError", <<Ev("mkdir"), Ev("imread")>>)
            /\ UNCHANGED files
       ELSE /\ pc' = IF use_torchserve THEN "probe" ELSE "simple"
            /\ log' = log \o <<Ev("mkdir"), Ev("imread")>>
            /\ UNCHANGED <<err, files, locals>>
    /\ UNCHANGED <<inputs, skVars, mkVars, batchVars, restVars>>

\* animate up to the probe: an input that lies in a rigged directory is used as it is
animate_Start ==
    /\ script = "animate"
    /\ pc = "start"
    /\ pc' = IF prerigged THEN "prerigged" ELSE "probe"
    /\ UNCHANGED <<err, files, locals, log, inputs, skVars, mkVars, batchVars, restVars>>

AutoBegin_writes_texture(events, image_png) ==
    LET im == Downscaled(src)
        early == IF image_png = <<>> THEN <<>> ELSE <<Ev("write:texture.png")>>
        written == IF image_png = <<>> THEN files
                   ELSE [files EXCEPT !["texture.png"] = Image(src.w, src.h, 3, "source", 0, 0)]
    IN  IF IsEmpty(im)
        THEN /\ Raise("cv2.error", events \o <<Ev("auto_imread")>> \o early)
             /\ files' = written
        ELSE /\ pc' = "detect"
             /\ img' = im
             /\ log' = log \o events \o <<Ev("auto_imread")>> \o early
             /\ files' = written
             /\ UNCHANGED <<err, detect_content, detections, bbox, cropped, mask, pose_results>>

\* the start of auto_detect_and_rig: imread, the downscale, imencode
AutoBegin(events, image_png) ==
    LET im == Downscaled(src)
    IN  IF IsEmpty(im)
        THEN /\ Raise("cv2.error", events \o <<Ev("auto_imread")>> \o image_png)
             /\ files' = IF image_png = <<>> THEN files
                         ELSE [files EXCEPT !["image.png"] = Image(src.w, src.h, 3, "source", 0, 0)]
        ELSE /\ pc' = "detect"
             /\ img' = im
             /\ log' = log \o events \o <<Ev("auto_imread")>> \o image_png
             /\ files' = IF image_png = <<>> THEN files
                         ELSE [files EXCEPT !["image.png"] = Image(src.w, src.h, 3, "source", 0, 0)]
             /\ UNCHANGED <<err, detect_content, detections, bbox, cropped, mask, pose_results>>

\* prepare_character: is_torchserve_running(), then auto_detect_and_rig to its first request
prepare_Probe ==
    /\ script = "prepare"
    /\ pc = "probe"
    /\ \E resp \in ProbeResponses :
          IF is_torchserve_running(resp)
          THEN AutoBegin(<<EvR("ping", resp)>>, <<>>)
          ELSE /\ pc' = "simple"
               /\ log' = log \o <<EvR("ping", resp)>>
               /\ UNCHANGED <<err, files, locals>>
    /\ UNCHANGED <<inputs, skVars, mkVars, batchVars, restVars>>

\* animate: is_torchserve_running(), then auto_detect_and_rig to its first
\* request, which writes image.png, or returns False on an undecodable file
animate_Probe ==
    /\ script = "animate"
    /\ pc = "probe"
    /\ \E resp \in ProbeResponses :
          IF is_torchserve_running(resp)
          THEN IF src = NoImage
               THEN Fallback(<<EvR("ping", resp), Ev("mkdir"), Ev("auto_imread")>>)
               ELSE AutoBegin(<<EvR("ping", resp), Ev("mkdir")>>, <<Ev("write:image.png")>>)
          ELSE /\ pc' = "simple"
               /\ log' = log \o <<EvR("ping", resp)>>
               /\ UNCHANGED <<err, files, locals>>
    /\ UNCHANGED <<inputs, skVars, mkVars, batchVars, restVars>>

\* the detect request, the choice of the best box and the crop; imencode of
\* an empty crop raises
prepare_Detect ==
    /\ script = "prepare"
    /\ pc = "detect"
    /\ \E resp \in DetectResponses :
          LET ev == <<EvR("detect_request", resp)>>
              out == RequestOutcome(resp)
          IN  IF out = "fail" THEN Fallback(ev)
              ELSE IF out = "raise" THEN Raise("TypeError", ev) /\ UNCHANGED files
              ELSE LET sorted == SortByScoreDesc(resp.body.items)
                       box == RoundBox(sorted[1].bbox)
                       crop == Crop(img, box)
                   IN  IF IsEmpty(crop)
                       THEN Raise("cv2.error", ev \o <<Ev("crop")>>) /\ UNCHANGED files
                       ELSE /\ pc' = "pose"
                            /\ detect_content' = resp.body.items
                            /\ detections' = sorted
                            /\ bbox' = box
                            /\ cropped' = crop
                            /\ log' = log \o ev \o <<Ev("crop")>>
                            /\ UNCHANGED <<err, files, img, mask, pose_results>>
    /\ UNCHANGED <<inputs, skVars, mkVars, batchVars, restVars>>

\* the same in animate_character.py, which also writes bounding_box.yaml and
\* segments the crop before the pose request; segmenting an empty crop raises
animate_Detect ==
    /\ script = "animate"
    /\ pc = "detect"
    /\ \E resp \in DetectResponses :
          LET ev == <<EvR("detect_request", resp)>>
              out == RequestOutcome(resp)
          IN  IF out = "fail" THEN Fallback(ev)
              ELSE IF out = "raise" THEN Raise("TypeError", ev) /\ UNCHANGED files
              ELSE LET sorted == SortByScoreDesc(resp.body.items)
                       box == RoundBox(sorted[1].bbox)
                       crop == Crop(img, box)
                       written == [files EXCEPT !["bounding_box.yaml"] =
                                      [kind |-> "bbox", left |-> box[1], top |-> box[2],
                                       right |-> box[3], bottom |-> box[4]]]
                       wr == <<Ev("write:bounding_box.yaml"), Ev("crop")>>
                   IN  IF IsEmpty(crop)
                       THEN Raise("cv2.error", ev \o wr) /\ files' = written
                       ELSE IF TooThin(crop)
                       THEN Raise("ValueError", ev \o wr) /\ files' = written
                       ELSE /\ pc' = "pose"
                            /\ detect_content' = resp.body.items
                            /\ detections' = sorted
                            /\ bbox' = box
                            /\ cropped' = crop
                            /\ mask' \in segment_outcomes(crop)
                            /\ files' = written
                            /\ log' = log \o ev \o wr \o <<Ev("segment")>>
                            /\ UNCHANGED <<err, img, pose_results>>
    /\ UNCHANGED <<inputs, skVars, mkVars, batchVars, restVars>>

\* the pose request, the skeleton and the three writes of prepare-character.py
prepare_Pose ==
    /\ script = "prepare"
    /\ pc = "pose"
    /\ \E resp \in PoseResponses :
          LET ev == <<EvR("pose_request", resp)>>
              out == RequestOutcome(resp)
          IN  IF out = "fail" THEN Fallback(ev)
              ELSE IF out = "raise" THEN Raise("IndexError", ev) /\ UNCHANGED files
              ELSE LET skeleton == prepare_keypoint_skeleton(resp.body.items[1].keypoints)
                   IN  /\ pc' = "thumb"
                       /\ files' = [files EXCEPT
                              !["texture.png"] = ToRGBA(cropped),
                              !["mask.png"] = prepare_auto_mask(cropped),
                              !["char_cfg.yaml"] = CharCfg(cropped.w, cropped.h, skeleton)]
                       /\ log' = log \o ev \o <<Ev("skeleton"), Ev("write:texture.png"),
                                   Ev("segment"), Ev("write:mask.png"),
                                   Ev("write:char_cfg.yaml"), Ev("auto_ok")>>
                       /\ DropLocals
                       /\ UNCHANGED err
    /\ UNCHANGED <<inputs, skVars, mkVars, batchVars, restVars>>

\* the pose request, the skeleton and the three writes of animate_character.py
animate_Pose ==
    /\ script = "animate"
    /\ pc = "pose"
    /\ \E resp \in PoseResponses :
          LET ev == <<EvR("pose_request", resp)>>
              out == RequestOutcome(resp)
          IN  IF out = "fail" THEN Fallback(ev)
              ELSE IF out = "raise" THEN Raise("IndexError", ev) /\ UNCHANGED files
              ELSE LET skeleton == animate_keypoint_skeleton(resp.body.items[1].keypoints)
                   IN  /\ pc' = "done"
                       /\ files' = [files EXCEPT
                              !["texture.png"] = ToRGBA(cropped),
                              !["mask.png"] = mask,
                              !["char_cfg.yaml"] = CharCfg(cropped.w, cropped.h, skeleton)]
                       /\ log' = log \o ev \o <<Ev("skeleton"), Ev("write:texture.png"),
                                   Ev("write:mask.png"), Ev("write:char_cfg.yaml"),
                                   Ev("auto_ok")>>
                       /\ DropLocals
                       /\ UNCHANGED err
    /\ UNCHANGED <<inputs, skVars, mkVars, batchVars, restVars>>

SimpleFiles_downscaled(skeleton) ==
    [files EXCEPT
        !["texture.png"] = ToRGBA(Downscaled(src)),
        !["mask.png"] = create_mask_from_image(ToRGBA(Downscaled(src))),
        !["char_cfg.yaml"] = CharCfg(Downscaled(src).w, Downscaled(src).h, skeleton)]

\* what SIMPLE_RIG writes for the decoded source
SimpleFiles(skeleton) ==
    [files EXCEPT
        !["texture.png"] = ToRGBA(src),
        !["mask.png"] = create_mask_from_image(ToRGBA(src)),
        !["char_cfg.yaml"] = CharCfg(src.w, src.h, skeleton)]

SimpleEvents ==
    <<Ev("write:texture.png"), Ev("mask"), Ev("write:mask.png"),
      Ev("simple_skeleton"), Ev("write:char_cfg.yaml")>>

\* prepare_character from "Ensure RGBA" to the write of char_cfg.yaml
prepare_SimpleRig ==
    /\ script = "prepare"
    /\ pc = "simple"
    /\ pc' = "thumb"
    /\ files' = SimpleFiles(prepare_create_simple_skeleton(src.w, src.h))
    /\ log' = log \o SimpleEvents
    /\ UNCHANGED <<err, locals, inputs, skVars, mkVars, batchVars, restVars>>

animate_SimpleRig_silent ==
    /\ script = "animate"
    /\ pc = "simple"
    /\ IF src = NoImage
       THEN /\ pc' = "done"
            /\ log' = log \o <<Ev("mkdir"), Ev("imread")>>
            /\ UNCHANGED <<err, files, locals>>
       ELSE /\ pc' = "done"
            /\ files' = SimpleFiles(animate_create_simple_skeleton(src.w, src.h))
            /\ log' = log \o <<Ev("mkdir"), Ev("imread")>> \o SimpleEvents
            /\ UNCHANGED <<err, locals>>
    /\ UNCHANGED <<inputs, skVars, mkVars, batchVars, restVars>>

\* prepare_character_simple
animate_SimpleRig ==
    /\ script = "animate"
    /\ pc = "simple"
    /\ IF src = NoImage
       THEN /\ Raise("ValueError", <<Ev("mkdir"), Ev("imread")>>)
            /\ UNCHANGED files
       ELSE /\ pc' = "done"
            /\ files' = SimpleFiles(animate_create_simple_skeleton(src.w, src.h))
            /\ log' = log \o <<Ev("mkdir"), Ev("imread")>> \o SimpleEvents
            /\ UNCHANGED <<err, locals>>
    /\ UNCHANGED <<inputs, skVars, mkVars, batchVars, restVars>>

ThumbSize == 256

\* _create_thumbnail: scale = min(256 / w, 256 / h), new_w = round(w * scale),
\* new_h = round(h * scale), which is round(256 n / max(w, h)) (the float
\* computation agrees with the exact one for w, h up to 1300 and the sizes of
\* SrcSizes); cv2.resize raises when a side is 0
Thumbnail(texture) ==
    LET m == Max(texture.w, texture.h)
        new_w == RoundHalfEven(ThumbSize * texture.w, m)
        new_h == RoundHalfEven(ThumbSize * texture.h, m)
    IN  [kind |-> "thumbnail", size |-> ThumbSize, new_w |-> new_w, new_h |-> new_h,
         x_off |-> (ThumbSize - new_w) \div 2, y_off |-> (ThumbSize - new_h) \div 2,
         of |-> texture]

prepare_Thumbnail ==
    /\ script = "prepare"
    /\ pc = "thumb"
    /\ LET texture == files["texture.png"]
       IN  IF texture = Absent
           THEN /\ pc' = "done"
                /\ UNCHANGED <<err, files, log, locals>>
           ELSE LET th == Thumbnail(texture)
                IN  IF th.new_w = 0 \/ th.new_h = 0
                    THEN Raise("cv2.error", <<Ev("thumbnail")>>) /\ UNCHANGED files
                    ELSE /\ pc' = "done"
                         /\ files' = [files EXCEPT !["thumbnail.png"] = th]
                         /\ log' = log \o <<Ev("thumbnail"), Ev("write:thumbnail.png")>>
                         /\ UNCHANGED <<err, locals>>
    /\ UNCHANGED <<inputs, skVars, mkVars, batchVars, restVars>>

Next ==
    \/ prepare_Start
    \/ animate_Start
    \/ prepare_Probe
    \/ animate_Probe
    \/ prepare_Detect
    \/ animate_Detect
    \/ prepare_Pose
    \/ animate_Pose
    \/ prepare_SimpleRig
    \/ animate_SimpleRig
    \/ prepare_Thumbnail

Spec == Init /\ [][Next]_vars

\* prepare_character called again with the same output_dir, on any source:
\* the directory keeps what the earlier call left in it
Rerun ==
    /\ script = "prepare"
    /\ pc \in {"done", "raised"}
    /\ Cardinality({i \in DOMAIN log : log[i].ev = "rerun"}) < MaxRuns - 1
    /\ src' \in Sources
    /\ use_torchserve' \in BOOLEAN
    /\ pc' = "start"
    /\ err' = ""
    /\ log' = SelectSeq(log, LAMBDA e : e.ev = "rerun") \o <<Ev("rerun")>>
    /\ UNCHANGED <<script, prerigged, files, locals, skVars, mkVars, batchVars, restVars>>

RerunNext ==
    \/ Next
    \/ Rerun

RerunSpec == Init /\ [][RerunNext]_vars

----------------------------------------------------------------------------
(* batch_process.  A file stem is a sequence of characters; the directory  *)
(* a run leaves is held by the file its rig (texture, mask, char_cfg) and  *)
(* its thumbnail come from, <<>> when missing.                             *)

Chars == {"a", "A", " ", "-"}
Stems == {q \in SeqsUpTo(Chars, MaxStem) : Len(q) >= 1}

\* code points, "." for the suffix that follows the stem
Code(c) == CASE c = " " -> 32 [] c = "-" -> 45 [] c = "." -> 46 [] c = "A" -> 65 [] c = "a" -> 97

\* the order of sorted(input_path.glob("*.png")) on the file names
RECURSIVE LexLess(_, _)
LexLess(p, q) ==
    IF p = <<>> THEN q # <<>>
    ELSE IF q = <<>> THEN FALSE
    ELSE IF Code(Head(p)) # Code(Head(q)) THEN Code(Head(p)) < Code(Head(q))
    ELSE LexLess(Tail(p), Tail(q))

NameLess(f, g) == LexLess(f \o <<".">>, g \o <<".">>)

Sorted(S) ==
    CHOOSE q \in [1..Cardinality(S) -> S] :
        \A i, j \in 1..Cardinality(S) : i < j => NameLess(q[i], q[j])

\* png_file.stem.lower().replace(" ", "-")
char_id(stem) ==
    [i \in DOMAIN stem |->
        IF stem[i] = "A" THEN "a" ELSE IF stem[i] = " " THEN "-" ELSE stem[i]]

EmptyDir == [rig |-> <<>>, thumbnail |-> <<>>]
DirOf(dirs, id) == IF id \in DOMAIN dirs THEN dirs[id] ELSE EmptyDir

\* how a prepare_character call ends: with the bundle written, with an
\* exception after texture, mask and char_cfg and before the thumbnail, or
\* with an exception before any write
Outcomes == {"ok", "raised_partial", "raised_empty"}
Written(dir, file, outcome) ==
    CASE outcome = "ok" -> [rig |-> file, thumbnail |-> file]
      [] outcome = "raised_partial" -> [dir EXCEPT !.rig = file]
      [] outcome = "raised_empty" -> dir

BatchInit ==
    /\ IdleRun
    /\ IdleSk
    /\ IdleMask
    /\ IdleRest
    /\ b_files \in {S \in SUBSET Stems : Cardinality(S) <= MaxBatch}
    /\ b_todo = <<>>
    /\ b_dirs = <<>>
    /\ b_manifest = <<>>
    /\ b_done = <<>>
    /\ b_pc = "start"

\* the glob; an input directory without *.png files ends the call
batch_Glob ==
    /\ b_pc = "start"
    /\ IF b_files = {}
       THEN b_pc' = "returned" /\ UNCHANGED b_todo
       ELSE b_pc' = "loop" /\ b_todo' = Sorted(b_files)
    /\ UNCHANGED <<b_files, b_dirs, b_manifest, b_done, runVars, skVars, mkVars, restVars>>

\* one turn of the loop: prepare_character on the next file, into output_path / char_id
batch_Process ==
    /\ b_pc = "loop"
    /\ b_todo # <<>>
    /\ \E outcome \in Outcomes :
          LET png_file == Head(b_todo)
              id == char_id(png_file)
          IN  /\ b_dirs' = [d \in DOMAIN b_dirs \cup {id} |->
                               IF d = id THEN Written(DirOf(b_dirs, id), png_file, outcome)
                               ELSE b_dirs[d]]
              /\ b_manifest' = IF outcome = "ok" THEN Append(b_manifest, id) ELSE b_manifest
              /\ b_done' = Append(b_done, [file |-> png_file, outcome |-> outcome])
    /\ b_todo' = Tail(b_todo)
    /\ UNCHANGED <<b_files, b_pc, runVars, skVars, mkVars, restVars>>

\* the loop is over: manifest.json is written
batch_SaveManifest ==
    /\ b_pc = "loop"
    /\ b_todo = <<>>
    /\ b_pc' = "done"
    /\ UNCHANGED <<b_files, b_todo, b_dirs, b_manifest, b_done, runVars, skVars, mkVars, restVars>>

BatchNext ==
    \/ batch_Glob
    \/ batch_Process
    \/ batch_SaveManifest

BatchSpec == BatchInit /\ [][BatchNext]_vars

(* ============ Segmentation of the crop, pixel by pixel ============ *)
(* The crop is held by its channel minimum plane (np.min(img, axis=2))   *)
(* and by the cells cv2.adaptiveThreshold followed by bitwise_not leaves *)
(* at 255: the cells darker than their neighbourhood mean minus 8.       *)

SegW == 7
SegH == 5

\* cv2.getStructuringElement(cv2.MORPH_RECT, (3, 3)), as offsets from the anchor
MORPH_RECT_3x3 == ((0 - 1)..1) \X ((0 - 1)..1)

bitwise_not(m) == [c \in DOMAIN m |-> 255 - m[c]]

\* the closing and the dilation both scripts apply to the thresholded plane
close_and_dilate(dark) ==
    dilate_n(morph_close(dark, MORPH_RECT_3x3, 2), MORPH_RECT_3x3, 2)

Adjacent4(a, b) ==
    \/ a[1] = b[1] /\ (a[2] = b[2] + 1 \/ b[2] = a[2] + 1)
    \/ a[2] = b[2] /\ (a[1] = b[1] + 1 \/ b[1] = a[1] + 1)

Adjacent8(a, b) ==
    /\ a # b
    /\ a[1] - b[1] \in (0 - 1)..1
    /\ a[2] - b[2] \in (0 - 1)..1

\* the cells of allowed that S reaches by steps between 4-neighbours
RECURSIVE Grow4(_, _)
Grow4(S, allowed) ==
    LET more == {c \in allowed \ S : \E r \in S : Adjacent4(c, r)}
    IN  IF more = {} THEN S ELSE Grow4(S \cup more, allowed)

RECURSIVE Grow8(_, _)
Grow8(S, allowed) ==
    LET more == {c \in allowed \ S : \E r \in S : Adjacent8(c, r)}
    IN  IF more = {} THEN S ELSE Grow8(S \cup more, allowed)

IsBorder(c, w, h) == c[1] = 1 \/ c[1] = w \/ c[2] = 1 \/ c[2] = h

\* the seed points: for x in range(0, w - 1, 10): (x, 0), (x, h - 1);
\* for y in range(0, h - 1, 10): (0, y), (w - 1, y)
FloodSeeds(w, h) ==
    {c \in Cells(w, h) :
        \/ (c[1] - 1) % 10 = 0 /\ c[1] - 1 < w - 1 /\ c[2] \in {1, h}
        \/ (c[2] - 1) % 10 = 0 /\ c[2] - 1 < h - 1 /\ c[1] \in {1, w}}

\* im_floodfill after the floodFill calls and the four border assignments:
\* a fill starts only at a seed where the mask is 0 and does not cross
\* cells where it is not
flood_from_edges(gray, w, h) ==
    LET background == {c \in DOMAIN gray : gray[c] = 0}
        filled == Grow4(FloodSeeds(w, h) \cap background, background)
    IN  [c \in DOMAIN gray |-> IF c \in filled \/ IsBorder(c, w, h) THEN 0 ELSE 255]

\* measure.find_contours(mask2, 0.0): one closed contour around each group
\* of cells at 0, which are joined through their 8 neighbours
\* (fully_connected='low'), in the order in which a row by row scan meets them
Groups(mask2) ==
    LET low == {c \in DOMAIN mask2 : mask2[c] = 0}
    IN  {Grow8({c}, low) : c \in low}

\* cv2.fillPoly of one contour: the group and what it encloses
fillPoly(group, w, h) ==
    LET outside == Cells(w, h) \ group
        open == Grow4({c \in outside : IsBorder(c, w, h)}, outside)
    IN  Cells(w, h) \ open

ScanBefore(a, b) == a[2] < b[2] \/ (a[2] = b[2] /\ a[1] < b[1])
FirstCell(group) == CHOOSE c \in group : \A d \in group \ {c} : ScanBefore(c, d)

\* the loop over the contours: size > biggest keeps the first of the largest
biggest_contour(groups, w, h) ==
    CHOOSE g \in groups :
        \A o \in groups \ {g} :
            LET sg == Cardinality(fillPoly(g, w, h))
                so == Cardinality(fillPoly(o, w, h))
            IN  sg > so \/ (sg = so /\ ScanBefore(FirstCell(g), FirstCell(o)))

\* ndimage.binary_fill_holes: the cells the background cannot reach from outside
binary_fill_holes(S, w, h) == fillPoly(S, w, h)

\* segment_character on the pixels: the outcome and the mask returned
segment_pixels(crop) ==
    LET w == crop.w
        h == crop.h
        gray == close_and_dilate(crop.dark)
        im_floodfill == flood_from_edges(gray, w, h)
        mask2 == bitwise_not(im_floodfill)
        contours == Groups(mask2)
    IN  IF w < 2 \/ h < 2
        THEN [result |-> "raised", out |-> <<>>]
        ELSE IF contours = {}
        THEN [result |-> "fallback", out |-> threshold_binary_inv(crop.min, 240, 255)]
        ELSE LET final_mask == binary_fill_holes(
                                   fillPoly(biggest_contour(contours, w, h), w, h), w, h)
             IN  [result |-> "contour",
                  out |-> [c \in Cells(w, h) |-> IF c \in final_mask THEN 255 ELSE 0]]

\* the mask prepare-character.py writes on the auto path
prepare_mask_pixels(crop) ==
    [result |-> "written", out |-> close_and_dilate(crop.dark)]

\* the crops tried: at most two cells differ from the others; on the small
\* crops they take values around the cutoff and adaptiveThreshold may or may
\* not mark them, on the large one they are black on white and marked
SegSizes == {<<SegW, SegH>>, <<3, 3>>, <<2, 3>>, <<1, 3>>}
SegPairs(d) ==
    IF d = <<SegW, SegH>> THEN {<<0, 255>>}
    ELSE {<<0, 255>>, <<240, 255>>, <<241, 255>>, <<0, 240>>}
SegMarked(d) == IF d = <<SegW, SegH>> THEN {TRUE} ELSE BOOLEAN
SegCrop(w, h, S, pair, adaptive) ==
    [kind |-> "crop", w |-> w, h |-> h,
     min |-> Plane(w, h, S, pair),
     dark |-> IF adaptive THEN Plane(w, h, S, <<255, 0>>) ELSE Flat(w, h, 0)]
SegInputs ==
    UNION {
        {SegCrop(d[1], d[2], S, pr, ad) :
            S \in {{a, b} : a \in Cells(d[1], d[2]), b \in Cells(d[1], d[2])} \cup {{}},
            pr \in SegPairs(d), ad \in SegMarked(d)}
        : d \in SegSizes}

SegInit ==
    /\ IdleRun
    /\ IdleSk
    /\ IdleMask
    /\ IdleBatch
    /\ IdleServer
    /\ seg_src \in SegInputs
    /\ seg_impl = "none"
    /\ seg_result = ""
    /\ seg_out = <<>>

SegAnimate ==
    /\ seg_impl = "none"
    /\ seg_impl' = "animate"
    /\ seg_result' = segment_pixels(seg_src).result
    /\ seg_out' = segment_pixels(seg_src).out
    /\ UNCHANGED <<seg_src, runVars, skVars, mkVars, batchVars, srvVars>>

SegPrepare ==
    /\ seg_impl = "none"
    /\ seg_impl' = "prepare"
    /\ seg_result' = prepare_mask_pixels(seg_src).result
    /\ seg_out' = prepare_mask_pixels(seg_src).out
    /\ UNCHANGED <<seg_src, runVars, skVars, mkVars, batchVars, srvVars>>

SegNext ==
    \/ SegAnimate
    \/ SegPrepare

SegSpec == SegInit /\ [][SegNext]_vars

(* ================= The image generation server ================= *)

MaxReqs == 2
MaxTicks == 4

BUSY_TIMEOUT_S == 1200

\* The clock advances in steps of half the watchdog timeout.
Quantum == BUSY_TIMEOUT_S \div 2

GenRequests == 1..MaxReqs

\* A generation is executing: the handler is between _set_busy(True) and
\* its finally clause.
InPipeline(r) == reqs[r] = "pipeline"
Executing(r) == reqs[r] \in {"pipeline", "returned", "failed"}

\* _check_busy_timeout: the flag and the timestamp it leaves.
TimedOut == is_busy /\ busy_since > 0 /\ now - busy_since > BUSY_TIMEOUT_S
BusyAfterCheck == IF TimedOut THEN FALSE ELSE is_busy
SinceAfterCheck == IF TimedOut THEN 0 ELSE busy_since

ServerInit ==
    /\ IdleRun
    /\ IdleSk
    /\ IdleMask
    /\ IdleBatch
    /\ IdleSeg
    /\ pipe = FALSE
    /\ is_busy = FALSE
    /\ busy_since = 0
    /\ now = Quantum
    /\ reqs = [r \in GenRequests |-> "idle"]
    /\ answer = [ep |-> "none"]

OtherVars == <<runVars, skVars, mkVars, batchVars, segVars>>

load_model ==
    /\ ~pipe
    /\ pipe' = TRUE
    /\ UNCHANGED <<is_busy, busy_since, now, reqs, answer, OtherVars>>

Tick ==
    /\ now < Quantum * (MaxTicks + 1)
    /\ now' = now + Quantum
    /\ UNCHANGED <<pipe, is_busy, busy_since, reqs, answer, OtherVars>>

health ==
    /\ is_busy' = BusyAfterCheck
    /\ busy_since' = SinceAfterCheck
    /\ answer' = [ep |-> "health", loaded |-> pipe, busy |-> BusyAfterCheck]
    /\ UNCHANGED <<pipe, now, reqs, OtherVars>>

reset_busy ==
    /\ is_busy' = FALSE
    /\ busy_since' = 0
    /\ answer' = [ep |-> "reset-busy", was_busy |-> is_busy]
    /\ UNCHANGED <<pipe, now, reqs, OtherVars>>

\* /generate up to its await: everything here runs on the event loop
\* without yielding.
generate_Arrive(r) ==
    /\ reqs[r] = "idle"
    /\ IF ~pipe
       THEN /\ reqs' = [reqs EXCEPT ![r] = "503"]
            /\ UNCHANGED <<is_busy, busy_since>>
       ELSE IF BusyAfterCheck
       THEN /\ reqs' = [reqs EXCEPT ![r] = "503"]
            /\ is_busy' = BusyAfterCheck
            /\ busy_since' = SinceAfterCheck
       ELSE /\ reqs' = [reqs EXCEPT ![r] = "pipeline"]
            /\ is_busy' = TRUE
            /\ busy_since' = now
    /\ UNCHANGED <<pipe, now, answer, OtherVars>>

\* The executor thread leaves pipe(...), with a result or an exception.
pipeline_Return(r) ==
    /\ reqs[r] = "pipeline"
    /\ \E outcome \in {"returned", "failed"} :
           reqs' = [reqs EXCEPT ![r] = outcome]
    /\ UNCHANGED <<pipe, is_busy, busy_since, now, answer, OtherVars>>

\* The handler resumes: post-processing, the response, then finally.
generate_Finish(r) ==
    /\ reqs[r] \in {"returned", "failed"}
    /\ \E status \in IF reqs[r] = "failed" THEN {"500"} ELSE {"200", "500"} :
           reqs' = [reqs EXCEPT ![r] = status]
    /\ is_busy' = FALSE
    /\ busy_since' = 0
    /\ UNCHANGED <<pipe, now, answer, OtherVars>>

ServerNext ==
    \/ load_model
    \/ Tick
    \/ health
    \/ reset_busy
    \/ \E r \in GenRequests : generate_Arrive(r)
    \/ \E r \in GenRequests : pipeline_Return(r)
    \/ \E r \in GenRequests : generate_Finish(r)

ServerSpec == ServerInit /\ [][ServerNext]_vars

(* ======================== Claims ======================== *)
----------------------------------------------------------------------------
(* Claims about the skeleton synthesizer, checked under SkelSpec *)

\* z is the integer nearest to n/d, the even one when n/d lies halfway
IsRoundOf(z, n, d) ==
    /\ 2 * d * z - 2 * n <= d
    /\ 2 * n - 2 * d * z <= d
    /\ (2 * d * z - 2 * n = d \/ 2 * n - 2 * d * z = d) => z % 2 = 0
\* p is the pixel nearest to keypoint k (half pixels)
IsRoundOfPt(p, k) == IsRoundOf(p[1], k[1], 2) /\ IsRoundOf(p[2], k[2], 2)
\* p is the pixel nearest to the midpoint of keypoints a and b
IsRoundOfMid(p, a, b) ==
    IsRoundOf(p[1], a[1] + b[1], 4) /\ IsRoundOf(p[2], a[2] + b[2], 4)
\* z = floor(n * pct / 100)
IsFloorPct(z, n, pct) == 100 * z <= pct * n /\ pct * n < 100 * (z + 1)

LimbJoints == {"right_shoulder", "right_elbow", "right_hand",
               "left_shoulder", "left_elbow", "left_hand",
               "right_hip", "right_knee", "right_foot",
               "left_hip", "left_knee", "left_foot"}

\* the joints that reach one of R in at most k steps along parents
RECURSIVE ReachRoot(_, _, _)
ReachRoot(sk, R, k) ==
    IF k = 0 THEN R
    ELSE ReachRoot(sk, R \cup {sk[i].name : i \in {j \in DOMAIN sk : sk[j].parent \in R}}, k - 1)

IsTree(sk) ==
    /\ Len(sk) = 16
    /\ \A i, j \in DOMAIN sk : sk[i].name = sk[j].name => i = j
    /\ Cardinality({i \in DOMAIN sk : sk[i].parent = None}) = 1
    /\ \A i \in DOMAIN sk : sk[i].parent = None <=> sk[i].name = "root"
    /\ \A i \in DOMAIN sk : sk[i].parent # None => sk[i].parent \in JointNames(sk)
    \* every joint reaches root along parents, so no walk along parents cycles
    /\ ReachRoot(sk, {"root"}, 15) = JointNames(sk)

\* C4: every skeleton produced, in keypoint mode for any 17 keypoints and in
\* proportional mode for any positive width and height, has 16 joints with
\* pairwise distinct names, exactly one joint without a parent, named root,
\* every other parent naming a joint of the skeleton, and an acyclic parent
\* relation along which every joint reaches root.
C4_SkeletonIsTree == sk_impl # "none" => IsTree(sk_out)

C4_Witness ==
    /\ sk_impl = "prepare_keypoint"
    /\ \E i \in 0..16 : sk_kpts[i][1] < 0 /\ sk_kpts[i][2] < 0
    /\ Len(sk_out) = 16

\* what each implementation produces from the inputs of this state
AllOutputs ==
    {prepare_keypoint_skeleton(sk_kpts), animate_keypoint_skeleton(sk_kpts),
     prepare_create_simple_skeleton(sk_w, sk_h),
     animate_create_simple_skeleton(sk_w, sk_h),
     batch_render_skeleton(sk_w, sk_h)}

\* C5: keypoint mode and proportional mode, in each script that implements
\* them, emit the same 16 joint names in the same order with the same parent
\* for each name; a joint carries nothing but loc, name and parent, so two
\* skeletons can differ only in coordinates.
C5_SameTopology ==
    sk_impl # "none" =>
        /\ Len(sk_out) = 16
        /\ \A i \in DOMAIN sk_out : DOMAIN sk_out[i] = {"loc", "name", "parent"}
        /\ \A o \in AllOutputs : Topology(o) = Topology(sk_out)

C5_Witness ==
    /\ sk_impl = "batch_render"
    /\ sk_out # prepare_create_simple_skeleton(sk_w, sk_h)
    /\ sk_out # prepare_keypoint_skeleton(sk_kpts)

\* the keypoint, among 5..16, whose pixel is where joint n lies
KptOf(n) == CHOOSE i \in 5..16 : IsRoundOfPt(LocOf(sk_out, n), sk_kpts[i])

\* keypoints 5..16 lie more than one pixel apart, so no two round to one pixel
FarApart ==
    \A i, j \in 5..16 :
        i < j => \/ sk_kpts[i][1] - sk_kpts[j][1] > 2
                 \/ sk_kpts[j][1] - sk_kpts[i][1] > 2
                 \/ sk_kpts[i][2] - sk_kpts[j][2] > 2
                 \/ sk_kpts[j][2] - sk_kpts[i][2] > 2

\* the skeleton this state's implementation gives for other keypoints
SameImpl(kpts) ==
    IF sk_impl = "prepare_keypoint" THEN prepare_keypoint_skeleton(kpts)
    ELSE animate_keypoint_skeleton(kpts)

\* C6: in keypoint mode root and hip both lie at round((k11 + k12) / 2),
\* torso at round((k5 + k6) / 2), neck at round(k0); each of the twelve limb
\* joints is the rounding of one keypoint among 5..16 and each of those
\* keypoints serves exactly one limb joint; keypoints 1..4 are not used.
C6_KeypointPlacement ==
    sk_impl \in KeypointImpls =>
        /\ IsRoundOfMid(LocOf(sk_out, "root"), sk_kpts[11], sk_kpts[12])
        /\ LocOf(sk_out, "hip") = LocOf(sk_out, "root")
        /\ IsRoundOfMid(LocOf(sk_out, "torso"), sk_kpts[5], sk_kpts[6])
        /\ IsRoundOfPt(LocOf(sk_out, "neck"), sk_kpts[0])
        /\ \A n \in LimbJoints :
              \E i \in 5..16 : IsRoundOfPt(LocOf(sk_out, n), sk_kpts[i])
        /\ \A i \in 5..16 :
              \E n \in LimbJoints : IsRoundOfPt(LocOf(sk_out, n), sk_kpts[i])
        /\ FarApart => Cardinality({KptOf(n) : n \in LimbJoints}) = 12
        /\ \A i \in 1..4 : \A p \in {<<0, 0>>, <<999, 1>>} :
              SameImpl([sk_kpts EXCEPT ![i] = p]) = sk_out

\* a tie: the hip midpoint lies exactly halfway between two pixels
C6_Witness ==
    /\ sk_impl \in KeypointImpls
    /\ (sk_kpts[11][1] + sk_kpts[12][1]) % 4 = 2
    /\ sk_kpts[0][2] % 2 = 1
    /\ LocOf(sk_out, "hip") = LocOf(sk_out, "root")

RightJoints == <<"right_shoulder", "right_elbow", "right_hand",
                 "right_hip", "right_knee", "right_foot">>
LeftJoints == <<"left_shoulder", "left_elbow", "left_hand",
                "left_hip", "left_knee", "left_foot">>
\* COCO: 5, 7, 9, 11, 13, 15 are the left shoulder, elbow, wrist, hip, knee,
\* ankle and 6, 8, 10, 12, 14, 16 the right ones
CocoLeft == <<5, 7, 9, 11, 13, 15>>
CocoRight == <<6, 8, 10, 12, 14, 16>>

C8_Proportional ==
    sk_impl \in SimpleImpls =>
        LET L(n) == LocOf(sk_out, n)
            cx == L("root")[1]
        IN  /\ 2 * cx <= sk_w /\ sk_w < 2 * (cx + 1)
            /\ IsFloorPct(L("root")[2], sk_h, 55)
            /\ L("hip") = L("root")
            /\ L("torso")[1] = cx /\ IsFloorPct(L("torso")[2], sk_h, 40)
            /\ L("neck")[1] = cx /\ IsFloorPct(L("neck")[2], sk_h, 22)
            /\ IsFloorPct(cx - L("right_shoulder")[1], sk_w, 20)
            /\ L("right_shoulder")[2] = L("torso")[2]
            /\ IsFloorPct(cx - L("right_hip")[1], sk_w, 10)
            /\ L("right_hip")[2] = L("root")[2]
            /\ L("right_knee")[1] = L("right_hip")[1]
            /\ IsFloorPct(L("right_knee")[2], sk_h, 75)
            /\ L("right_foot")[1] = L("right_hip")[1]
            /\ IsFloorPct(L("right_foot")[2], sk_h, 95)
            /\ \A s \in 1..6 :
                  /\ L(RightJoints[s])[1] + L(LeftJoints[s])[1] = 2 * cx
                  /\ L(RightJoints[s])[2] = L(LeftJoints[s])[2]
                  /\ L(RightJoints[s])[1] <= cx
            /\ Len(sk_out) = 16
            /\ (sk_w = 400 /\ sk_h = 600) => L("root") = <<200, 330>>

C8_Witness ==
    /\ sk_impl = "prepare_simple"
    /\ sk_w = 400 /\ sk_h = 600
    /\ LocOf(sk_out, "root") = <<200, 330>>
    /\ LocOf(sk_out, "left_foot") = <<240, 570>>

----------------------------------------------------------------------------
(* Claims about one rig construction run, checked under Spec *)

Terminated == pc \in {"done", "raised"}
HasBundle == \A f \in BundleFiles : files[f] # Absent
Requests == {"detect_request", "pose_request"}
\* the request failed: no connection or a timeout, an HTTP error status, a
\* body that is not JSON, JSON of the wrong shape, or an empty result
IsFailure(e) ==
    \/ e.kind = "exception"
    \/ e.status >= 300
    \/ e.kind \in {"not_json", "malformed", "falsy"}
ProbeSaidAvailable ==
    \E i \in DOMAIN log : log[i].ev = "ping" /\ log[i].kind # "exception" /\ log[i].status = 200

\* C1, as claimed: for every decodable source and every outcome of the probe,
\* detect and pose calls, the run does not raise, and when it ends all of
\* texture.png, mask.png, char_cfg and thumbnail.png exist.
C1_CompleteBundle ==
    src # NoImage => /\ pc # "raised"
                     /\ pc = "done" => HasBundle

\* C2, as claimed: with the service reported available, every failure of the
\* detect or pose step makes auto_detect_and_rig return no result and the run
\* go on with SIMPLE_RIG; none leaves the run as an exception.
C2_FailuresAbsorbed ==
    ProbeSaidAvailable =>
        \A i \in DOMAIN log :
            (log[i].ev \in Requests /\ IsFailure(log[i])) =>
                /\ i < Len(log)
                /\ log[i + 1].ev = "auto_failed"
                /\ i + 1 = Len(log) => pc = "simple"

\* C3: a source that cannot be decoded makes the run end with an error, and
\* none of texture.png, mask.png, char_cfg and thumbnail.png is ever written,
\* whether or not the service is available.
C3_UndecodableSource ==
    (src = NoImage /\ pc # "prerigged") =>
        /\ \A f \in BundleFiles : files[f] = Absent
        /\ pc \in {"start", "probe", "simple", "raised"}
        /\ pc = "raised" => err = "ValueError"
        /\ pc # "raised" => ENABLED Next

C3_Witness ==
    /\ src = NoImage
    /\ script = "animate"
    /\ ProbeSaidAvailable
    /\ pc = "raised"

\* the index of the candidate the claim names: of maximal score, and the
\* earliest of those
IsBest(items, k) ==
    /\ \A j \in DOMAIN items : items[j].score <= items[k].score
    /\ \A j \in DOMAIN items : j < k => items[j].score < items[k].score

\* C10: the bounding box used for the crop is that of a candidate of maximal
\* score, and of the earliest such candidate in the response.
C10_BestCandidate ==
    pc = "pose" =>
        \E k \in DOMAIN detect_content :
            /\ IsBest(detect_content, k)
            /\ \A i \in 1..4 : IsRoundOf(bbox[i], detect_content[k].bbox[i], 2)
            /\ cropped = Crop(img, bbox)
            /\ script = "animate" =>
                   /\ files["bounding_box.yaml"].left = bbox[1]
                   /\ files["bounding_box.yaml"].bottom = bbox[4]

\* two candidates share the maximal score and the second box is not the first
C10_Witness ==
    /\ pc = "pose"
    /\ Len(detect_content) >= 2
    /\ detect_content[1].score = detect_content[2].score
    /\ \A j \in DOMAIN detect_content : detect_content[j].score <= detect_content[1].score
    /\ bbox = RoundBox(detect_content[1].bbox)
    /\ bbox # RoundBox(detect_content[2].bbox)

----------------------------------------------------------------------------
(* The masks of alpha/threshold mode, checked under MaskSpec *)

\* the image create_mask_from_image is called with
MaskArg == IF mk_route = "simple_rig" THEN EnsureRGBA(mk_src) ELSE mk_src

\* the raw threshold mask of that image
RawMask ==
    IF MaskArg.ch = 4 THEN alpha_threshold(MaskArg.alpha)
    ELSE threshold_binary_inv(MaskArg.gray, 240, 255)

\* C11: in SIMPLE_RIG on an image without alpha channel the mask is the
\* near-white threshold mask up to the refinement: every pixel of gray value
\* at most 240 is foreground (closing and dilation only add to it), and an
\* image with no such pixel has an empty mask.
C11_NearWhiteThreshold ==
    (mk_route = "simple_rig" /\ mk_src.ch \in {1, 3}) =>
        \A c \in Cells(mk_src.w, mk_src.h) :
           /\ mk_src.gray[c] <= 240 => mk_out[c] = 255
           /\ (\A d \in Cells(mk_src.w, mk_src.h) : mk_src.gray[d] > 240) => mk_out[c] = 0

\* C12: the mask of an image with an alpha channel has the image's cells,
\* every cell is 0 or 255, and a cell is 255 exactly when its alpha is above 128.
C12_AlphaMask ==
    (mk_route # "none" /\ MaskArg.ch = 4) =>
        /\ DOMAIN mk_out = Cells(mk_src.w, mk_src.h)
        /\ \A c \in Cells(mk_src.w, mk_src.h) :
              /\ mk_out[c] \in {0, 255}
              /\ mk_out[c] = 255 <=> MaskArg.alpha[c] > 128

C12_Witness ==
    /\ mk_route = "from_image"
    /\ mk_src.ch = 4
    /\ \E c, d \in Cells(mk_src.w, mk_src.h) :
          /\ mk_src.alpha[c] = 128 /\ mk_out[c] = 0
          /\ mk_src.alpha[d] = 129 /\ mk_out[d] = 255

\* C13: on the alpha path and on the gray path alike, the mask returned is
\* the raw threshold mask after one closing pass and then one dilation pass.
C13_ClosedThenDilated ==
    mk_route # "none" =>
        mk_out = dilate(morph_close(RawMask, MORPH_ELLIPSE_5x5, 1), MORPH_ELLIPSE_5x5)

----------------------------------------------------------------------------
(* The requests of a run and their order, checked under Spec *)

Count(name) == Cardinality({i \in DOMAIN log : log[i].ev = name})
Happened(name) == \E i \in DOMAIN log : log[i].ev = name

\* C14: within one run the probe, the detect request and the pose request
\* are each issued at most once, whatever their outcomes, and exactly once
\* for each step the run has reached: one probe before a detect request, one
\* detect request before a pose request, one pose request before a rig built
\* from keypoints.
C14_NoRetry ==
    /\ Count("ping") <= 1
    /\ Count("detect_request") <= 1
    /\ Count("pose_request") <= 1
    /\ pc = "detect" => Count("ping") = 1 /\ Count("detect_request") = 0
    /\ pc = "pose" => Count("detect_request") = 1 /\ Count("pose_request") = 0
    /\ Happened("detect_request") => Count("ping") = 1
    /\ Happened("pose_request") => Count("detect_request") = 1
    /\ Happened("auto_ok") => Count("pose_request") = 1
    /\ Happened("auto_failed") => pc \in {"simple", "thumb", "done", "raised"}

\* the detect request timed out and the run went on to its end without another
C14_Witness ==
    /\ pc = "done"
    /\ \E i \in DOMAIN log : log[i].ev = "detect_request" /\ log[i].kind = "exception"
    /\ Count("detect_request") = 1
    /\ Count("ping") = 1

\* what the detect and pose calls take for a success status
AcceptedByRequest(e) == e.kind # "exception" /\ e.status < 300

\* C15: the probe never raises, and the service counts as available exactly
\* when the probe answered with a status that the detect and pose calls
\* treat as success; on a network error, a timeout or any other status the
\* auto-rig path is not entered.
C15_SameSuccessSet ==
    \A i \in DOMAIN log :
        log[i].ev = "ping" =>
            /\ ~(i = Len(log) /\ pc = "raised")
            /\ AcceptedByRequest(log[i]) <=>
                  (\E j \in DOMAIN log : j > i /\ log[j].ev = "auto_imread")
               \/ (i = Len(log) /\ pc = "detect")

\* C16: once a texture of positive size is written and the thumbnail stage
\* runs, the stage succeeds: thumbnail.png is a 256 x 256 canvas, the scaled
\* sides lie in 1..256 with the longer one 256, and the content is centered
\* to within one pixel.
C16_ThumbnailAlways ==
    (Happened("thumbnail") /\ files["texture.png"].w > 0 /\ files["texture.png"].h > 0) =>
        /\ pc = "done"
        /\ LET th == files["thumbnail.png"]
           IN  /\ th # Absent
               /\ th.size = 256
               /\ th.new_w \in 1..256 /\ th.new_h \in 1..256
               /\ Max(th.new_w, th.new_h) = 256
               /\ (256 - th.new_w - th.x_off) - th.x_off \in 0..1
               /\ (256 - th.new_h - th.y_off) - th.y_off \in 0..1

\* the step in which auto_detect_and_rig succeeds and writes its files
AutoSuccess == pc = "pose" /\ pc' \in {"thumb", "done"}

\* C18: on auto-rig success with best box (l, t, r, b), the texture written
\* is the region [l, r) x [t, b) of the image sent to the service, char_cfg
\* records width r - l and height b - t, and the skeleton is the one derived
\* from the keypoints of the pose response.
C18_TextureIsBox ==
    [][AutoSuccess =>
          LET l == bbox[1]
              t == bbox[2]
              r == bbox[3]
              b == bbox[4]
              texture == files'["texture.png"]
              cfg == files'["char_cfg.yaml"]
          IN  /\ texture = Image(r - l, b - t, 4, "sent", l, t)
              /\ cfg.width = r - l
              /\ cfg.height = b - t
              /\ \E k \in Poses : cfg.skeleton = prepare_keypoint_skeleton(k)
              /\ cfg.skeleton # prepare_create_simple_skeleton(cfg.width, cfg.height)
      ]_vars

\* the position of the first event of a name in the log, 0 when there is none
First(name) ==
    IF Happened(name) THEN CHOOSE i \in DOMAIN log :
                              /\ log[i].ev = name
                              /\ \A j \in 1..(i - 1) : log[j].ev # name
    ELSE 0

\* C19: a detect request is sent only when the auto-rig path is opted in and
\* the probe of the run succeeded; a pose request only after the detect
\* request returned a non-empty result; with the flag off or the probe
\* failed no request is sent and SIMPLE_RIG is taken.
C19_Gated ==
    /\ Happened("detect_request") => use_torchserve /\ ProbeSaidAvailable
    /\ Happened("pose_request") =>
          /\ Happened("detect_request")
          /\ First("detect_request") < First("pose_request")
          /\ log[First("detect_request")].kind = "list"
          /\ log[First("detect_request")].status < 300
    /\ (~use_torchserve \/ (Happened("ping") /\ ~ProbeSaidAvailable)) =>
          /\ ~Happened("detect_request")
          /\ ~Happened("pose_request")
          /\ pc \notin {"detect", "pose"}
          /\ pc = "done" => Happened("simple_skeleton")

Writes == {i \in DOMAIN log : log[i].ev \in {"write:" \o f : f \in FileNames}}

\* C20: within TRY_AUTO_RIG the steps run in the order detect, crop,
\* estimate_pose, segment, skeleton, write: the crop is segmented only after
\* the pose request has succeeded, the skeleton is built after the
\* segmentation, and nothing is written before the skeleton is built.
C20_StepOrder ==
    /\ Happened("crop") => First("detect_request") < First("crop")
    /\ Happened("pose_request") => First("crop") < First("pose_request")
    /\ Happened("segment") =>
          /\ Happened("pose_request")
          /\ First("pose_request") < First("segment")
          /\ log[First("pose_request")].kind = "list"
          /\ log[First("pose_request")].status < 300
    /\ Happened("skeleton") => Happened("segment") /\ First("segment") < First("skeleton")
    /\ \A i \in Writes :
          (Happened("auto_imread") /\ ~Happened("auto_failed")) =>
              Happened("skeleton") /\ First("skeleton") < i

----------------------------------------------------------------------------
(* The runs of one batch, checked under BatchSpec *)

\* C17: the runs of a batch share nothing: two distinct input files are
\* written to distinct output directories, so that the directory of every
\* file whose run succeeded holds the bundle of that file, as it would had
\* the file been processed alone.
C17_DistinctDirs ==
    b_pc = "done" =>
        /\ \A i, j \in DOMAIN b_done :
              i # j => char_id(b_done[i].file) # char_id(b_done[j].file)
        /\ \A i \in DOMAIN b_done :
              b_done[i].outcome = "ok" =>
                  b_dirs[char_id(b_done[i].file)] = [rig |-> b_done[i].file,
                                                     thumbnail |-> b_done[i].file]

----------------------------------------------------------------------------
(* What the two rigging paths write, checked under Spec *)

\* C21: whenever SIMPLE_RIG runs, also after a failed auto-rig attempt, the
\* texture is the whole decoded source made RGBA, with the source's width
\* and height (not a crop, not the image downscaled for the service),
\* char_cfg records that width and height, the mask has them, and the
\* skeleton is from_dimensions of them.
C21_SimpleRigOnFullImage ==
    Happened("simple_skeleton") =>
        /\ files["texture.png"] = Image(src.w, src.h, 4, "source", 0, 0)
        /\ files["mask.png"].w = src.w /\ files["mask.png"].h = src.h
        /\ files["char_cfg.yaml"].width = src.w
        /\ files["char_cfg.yaml"].height = src.h
        /\ files["char_cfg.yaml"].skeleton =
              IF script = "prepare" THEN prepare_create_simple_skeleton(src.w, src.h)
              ELSE animate_create_simple_skeleton(src.w, src.h)

\* SIMPLE_RIG after a failed pose request, on a source above 1000 px
C21_Witness ==
    /\ Happened("pose_request")
    /\ Happened("auto_failed")
    /\ Happened("simple_skeleton")
    /\ src.w = 2400
    /\ files["texture.png"].w = 2400
    /\ files["char_cfg.yaml"].height = 1200

RigFiles == {"texture.png", "mask.png", "char_cfg.yaml"}

\* C25: the auto-rig path writes none of texture.png, mask.png and char_cfg
\* before both the detect and the pose request returned a usable result;
\* each of the three is written at most once in a run, and after a fallback
\* all three are those of SIMPLE_RIG.
C25_NoPartialAutoWrites ==
    /\ \A f \in RigFiles : Count("write:" \o f) <= 1
    /\ \A i \in DOMAIN log :
          (log[i].ev \in {"write:" \o f : f \in RigFiles} /\ ~Happened("auto_failed")
             /\ Happened("auto_imread")) =>
              /\ Happened("pose_request")
              /\ First("detect_request") < First("pose_request")
              /\ First("pose_request") < i
              /\ log[First("detect_request")].kind = "list"
              /\ log[First("pose_request")].kind = "list"
    /\ pc \in {"detect", "pose"} => \A f \in RigFiles : files[f] = Absent
    /\ (Happened("auto_failed") /\ pc = "simple") => \A f \in RigFiles : files[f] = Absent
    /\ (Happened("auto_failed") /\ Happened("simple_skeleton")) =>
          /\ files["texture.png"] = ToRGBA(src)
          /\ files["mask.png"] = create_mask_from_image(ToRGBA(src))
          /\ files["char_cfg.yaml"].width = src.w

\* a fallback after the pose request failed, in animate_character.py, which
\* had segmented the crop by then
C25_Witness ==
    /\ script = "animate"
    /\ Happened("segment")
    /\ Happened("auto_failed")
    /\ pc = "done"
    /\ files["mask.png"] = create_mask_from_image(ToRGBA(src))

----------------------------------------------------------------------------
(* Proportional mode, checked under SkelSpec *)

RowOf(n) == LocOf(sk_out, n)[2]

\* C26: for all positive width and height every joint of proportional mode
\* lies inside the image, 0 <= x < width and 0 <= y < height, and the rows
\* are ordered neck <= torso <= hip <= knee <= foot.
C26_JointsInsideImage ==
    sk_impl \in SimpleImpls =>
        /\ \A i \in DOMAIN sk_out :
              /\ 0 <= sk_out[i].loc[1] /\ sk_out[i].loc[1] < sk_w
              /\ 0 <= sk_out[i].loc[2] /\ sk_out[i].loc[2] < sk_h
        /\ RowOf("neck") <= RowOf("torso")
        /\ RowOf("torso") <= RowOf("hip")
        /\ RowOf("hip") <= RowOf("right_knee")
        /\ RowOf("right_knee") <= RowOf("right_foot")
        /\ RowOf("hip") <= RowOf("left_knee")
        /\ RowOf("left_knee") <= RowOf("left_foot")

----------------------------------------------------------------------------
(* The manifest of a batch, checked under BatchSpec *)

\* the ids of the files whose run ended without raising, in the order processed
RECURSIVE IdsOfCompleted(_)
IdsOfCompleted(done) ==
    IF done = <<>> THEN <<>>
    ELSE IF Head(done).outcome = "ok"
         THEN <<char_id(Head(done).file)>> \o IdsOfCompleted(Tail(done))
         ELSE IdsOfCompleted(Tail(done))

\* C28: a failure while rigging one image does not stop the batch: every
\* file is processed, in sorted file-name order, the loop always ends with
\* the manifest written, and the manifest holds exactly one entry for each
\* image whose run completed without raising, no two entries with the same id.
C28_ManifestComplete ==
    /\ (b_pc = "loop" /\ b_todo = <<>>) => ENABLED batch_SaveManifest
    /\ b_pc = "done" =>
          /\ {b_done[i].file : i \in DOMAIN b_done} = b_files
          /\ Len(b_done) = Cardinality(b_files)
          /\ \A i, j \in DOMAIN b_done : i < j => NameLess(b_done[i].file, b_done[j].file)
          /\ b_manifest = IdsOfCompleted(b_done)
          /\ \A i, j \in DOMAIN b_manifest : i # j => b_manifest[i] # b_manifest[j]

----------------------------------------------------------------------------
(* Runs that share an output directory, checked under RerunSpec *)

\* C27: after any sequence of runs on one output directory, a thumbnail.png
\* that exists was made from the texture.png now in the directory, and a
\* texture.png never lies there without a thumbnail.
C27_ThumbnailOfTexture ==
    (script = "prepare" /\ pc \in {"done", "raised"}) =>
        /\ files["thumbnail.png"] # Absent =>
               files["thumbnail.png"].of = files["texture.png"]
        /\ files["texture.png"] # Absent => files["thumbnail.png"] # Absent


\* C29: at most one generation pipeline call is executing at any time,
\* whatever /generate, /health, /reset-busy and the watchdog do.
C29_OnePipeline ==
    Cardinality({r \in DOMAIN reqs : InPipeline(r)}) <= 1

\* C30: the busy flag is true exactly while a generation is executing.
C30_BusyIffExecuting ==
    reqs # <<>> => (is_busy <=> \E r \in DOMAIN reqs : Executing(r))


\* C22: the mask written on the auto path is the output of the full
\* segmentation (border-reachable background removed, largest contour kept,
\* holes filled), whichever script wrote it.
C22_FullSegmentation ==
    (seg_impl # "none" /\ segment_pixels(seg_src).result = "contour") =>
        seg_out = segment_pixels(seg_src).out

\* the candidate foreground holds no cell, so no contour can be found in it
NoContour(crop) ==
    Groups(bitwise_not(flood_from_edges(close_and_dilate(crop.dark), crop.w, crop.h))) = {}

\* C23: when no contour is found, segment_character returns the plain 240
\* threshold of the channel minimum, of the crop's size, without an error.
C23_FallbackOnNoContour ==
    (seg_impl = "animate" /\ NoContour(seg_src)) =>
        /\ seg_result = "fallback"
        /\ DOMAIN seg_out = Cells(seg_src.w, seg_src.h)
        /\ seg_out = threshold_binary_inv(seg_src.min, 240, 255)

Bundle == \A f \in RigFiles : files[f] # Absent

\* C24: in a bundle, mask.png has the width and height of texture.png and
\* char_cfg.yaml records that same width and height.
C24_SameDimensions ==
    Bundle =>
        /\ files["mask.png"].w = files["texture.png"].w
        /\ files["mask.png"].h = files["texture.png"].h
        /\ files["char_cfg.yaml"].width = files["texture.png"].w
        /\ files["char_cfg.yaml"].height = files["texture.png"].h

\* a bundle of the auto path of animate_character.py on a crop that is not
\* square, with a mask that came from a contour
C24_Witness ==
    /\ script = "animate"
    /\ Happened("auto_ok")
    /\ Bundle
    /\ files["mask.png"].mode = "segment"
    /\ files["texture.png"].w # files["texture.png"].h

====
